---- MODULE Spec2Model ----
(***************************************************************************)
(* Model of the leaky bucket rate limiter of package rate                  *)
(* (src/rate/leakybucket.go): the streaming limiter and the TakeByBlock    *)
(* limiter, driven by a settable clock as in src/rate/leakybucket_test.go. *)
(*                                                                         *)
(* Time is counted in ticks; Second ticks make one time.Second.  A         *)
(* time.Time is the number of ticks since construction, a time.Duration a  *)
(* number of ticks.  uint64 values are integers reduced modulo UintMod.    *)
(***************************************************************************)
EXTENDS Integers, Sequences, FiniteSets, TLC

\* ---------------------------------------------------------------- bounds
Second == 4        \* ticks per time.Second
MaxTime == 8       \* the clock is not advanced past this tick
MaxLimit == 2      \* limits passed to New and SetLimit are 0..MaxLimit
MaxChunk == 3      \* chunk sizes passed to Add are 0..MaxChunk
MaxAdds == 2       \* number of blocks passed to Add in a run
MaxTotal == 4      \* sum of the chunk sizes passed to Add in a run
WideLimit == 7     \* limits passed to New in a run of one wide limiter
WideTotal == 8     \* sum of the chunk sizes passed to Add in such a run
UintMod == 4096    \* unsigned values wrap modulo UintMod

\* a nil *time.Time
NoTime == -1

\* the threads that call Add, and those that call Take and SetLimit
Producers == {"p1", "p2"}
Consumers == {"c1", "c2"}
Threads == Producers \cup Consumers
NoThread == "none"

VARIABLES
    takeByBlock,        \* limiterData.takeByBlock
    limit,              \* limiterData.limit (limitAsFloat, boostedLimit derive from it)
    currentBucketSize,  \* limiterData.currentBucketSize
    lastEvent,          \* limiterData.lastEvent, NoTime when nil
    replies,            \* limiterData.replies: [chain, tail]
    blocks,             \* limiterData.blocks
    nextBlockTime,      \* limiterData.nextBlockTime, NoTime when nil
    nextNow,            \* the clock's reading (mockClock.nextNow)
    ret,                \* the last call and what it returned
    pre,                \* the limiter as the last Take found it
    promised,           \* instant up to which the last Take told the caller to wait
    released,           \* history: amount handed out by Take at each tick
    added,              \* history: the blocks passed to Add, in order
    taken,              \* history: the non-zero amounts Take returned by block, in order
    totalAdded,         \* history: sum of the chunk sizes passed to Add
    lock,               \* limiterData.lock: the thread holding it, NoThread when free
    locals,             \* per thread: where it is in its call, and its local variables
    consumer            \* the consumer loop: its Take calls, and how it started

vars == <<takeByBlock, limit, currentBucketSize, lastEvent, replies, blocks,
          nextBlockTime, nextNow, ret, pre, promised, released, added,
          taken, totalAdded, lock, locals, consumer>>

\* the callers' side: untouched by a call made on its own
callerVars == <<lock, locals, consumer>>

limiterVars == <<takeByBlock, limit, currentBucketSize, lastEvent, replies,
                 blocks, nextBlockTime>>

\* ------------------------------------------------------------- arithmetic
Min(a, b) == IF a < b THEN a ELSE b

\* uint64 arithmetic
UAdd(a, b) == (a + b) % UintMod
USub(a, b) == (a - b) % UintMod

\* math.Round of the non-negative quotient num/den: nearest integer, halves up
Round(num, den) == (2 * num + den) \div (2 * den)

\* ------------------------------------------------------------ repliesList
\* chain: the entries reachable from head through next, head first;
\* tail: the position in chain of the entry tail points to, 0 when tail is nil.
EmptyReplies == [chain |-> <<>>, tail |-> 0]

\* mutant: the new entry goes behind the tail
repliesAddBehind(rl, output, now) ==
    [chain |-> Append(rl.chain, [reply |-> output, replied |-> now]),
     tail |-> Len(rl.chain) + 1]

repliesAdd(rl, output, now) ==
    LET entry == [reply |-> output, replied |-> now] IN
    IF rl.chain = <<>>
    THEN [chain |-> <<entry>>, tail |-> 1]
    ELSE [chain |-> <<entry>> \o rl.chain,
          tail |-> IF rl.tail = 0 THEN 0 ELSE rl.tail + 1]

\* mutant: the time of the entry at head, the newest one
lastTimeHead(rl) == IF rl.chain = <<>> THEN NoTime ELSE rl.chain[1].replied

\* nil is NoTime
lastTime(rl) == IF rl.tail = 0 THEN NoTime ELSE rl.chain[rl.tail].replied

\* mutant: an entry exactly one second old still counts
inWindowInclusive(replied, dropTime) == replied >= dropTime

\* entry.replied.After(dropTime)
inWindow(replied, dropTime) == replied > dropTime

\* the loop of calculateAndCut from entry i on, retVal accumulated so far
RECURSIVE cutFrom(_, _, _, _)
cutFrom(rl, i, dropTime, retVal) ==
    IF i > Len(rl.chain)
    THEN [total |-> retVal, list |-> rl]
    ELSE IF inWindow(rl.chain[i].replied, dropTime)
         THEN cutFrom(rl, i + 1, dropTime, UAdd(retVal, rl.chain[i].reply))
         ELSE IF i = 1
              THEN [total |-> retVal, list |-> EmptyReplies]
              ELSE [total |-> retVal,
                    list |-> [chain |-> SubSeq(rl.chain, 1, i - 1), tail |-> i - 1]]

\* total sent in the last second, and the list with the older entries cut
calculateAndCut(rl, now) ==
    IF rl.chain = <<>>
    THEN [total |-> 0, list |-> rl]
    ELSE cutFrom(rl, 1, now - Second, 0)

\* --------------------------------------------------------------- history
Ticks == 0..MaxTime

RECURSIVE SumReleased(_, _, _)
\* amount released at the ticks lo..hi
SumReleased(h, lo, hi) ==
    IF lo > hi THEN 0 ELSE h[hi] + SumReleased(h, lo, hi - 1)

\* amount released in the window (t - Second, t]
WindowReleased(h, t) == SumReleased(h, IF t - Second + 1 < 0 THEN 0 ELSE t - Second + 1, t)

NoPre == [now |-> NoTime]

\* ------------------------------------------------------------------ New
\* mutant: a limit of 0 is taken as it is
limitOrOneRaw(n) == n

\* a limit of 0 is converted to a limit of 1
limitOrOne(n) == IF n = 0 THEN 1 ELSE n

New(limit0, byBlock) ==
    /\ limit = limitOrOne(limit0)
    /\ takeByBlock = byBlock
    /\ currentBucketSize = 0
    /\ lastEvent = NoTime
    /\ replies = EmptyReplies
    /\ blocks = <<>>
    /\ nextBlockTime = NoTime

\* the consumer loop before its first Take
NotStarted == [calls |-> 0, start |-> NoTime, size |-> 0, fresh |-> FALSE]

\* a thread that is not inside a call
Idle == [pc |-> "idle", arg |-> 0, tmp |-> 0]

History ==
    /\ nextNow = 0
    /\ ret = [op |-> "New", val |-> 0, delay |-> 0]
    /\ pre = NoPre
    /\ promised = NoTime
    /\ released = [t \in Ticks |-> 0]
    /\ added = <<>>
    /\ taken = <<>>
    /\ totalAdded = 0
    /\ lock = NoThread
    /\ locals = [th \in Threads |-> Idle]
    /\ consumer = NotStarted

\* New(limit, WithClock(mc))
InitStream == (\E limit0 \in 0..MaxLimit : New(limit0, FALSE)) /\ History

\* New(limit, WithClock(mc), TakeByBlock())
InitBlock == (\E limit0 \in 0..MaxLimit : New(limit0, TRUE)) /\ History

\* ------------------------------------------------------------------ Add
\* mutant: the new block goes to the front of the queue
appendBlockFront(bs, chunkSize) == <<chunkSize>> \o bs

\* append(ld.blocks, block{chunkSize})
appendBlock(bs, chunkSize) == Append(bs, chunkSize)

\* mutant: a block is counted in the bucket as well as queued
bucketByBlockCounted(size, chunkSize) == UAdd(size, chunkSize)

\* the bucket size as Add leaves it when the limiter takes by block: the
\* block is appended and Add returns before the size is read
bucketByBlock(size, chunkSize) == size

\* Add in a run that passes no more than maxAdds blocks, maxTotal in all
addCall(maxAdds, maxTotal, chunkSize) ==
    /\ Len(added) < maxAdds
    /\ totalAdded + chunkSize <= maxTotal
    /\ IF takeByBlock
       THEN /\ blocks' = appendBlock(blocks, chunkSize)
            /\ added' = Append(added, chunkSize)
            /\ currentBucketSize' = bucketByBlock(currentBucketSize, chunkSize)
       ELSE /\ currentBucketSize' = UAdd(currentBucketSize, chunkSize)
            /\ UNCHANGED <<blocks, added>>
    /\ totalAdded' = totalAdded + chunkSize
    /\ ret' = [op |-> "Add", val |-> 0, delay |-> 0]
    /\ pre' = NoPre
    /\ UNCHANGED <<takeByBlock, limit, lastEvent, replies, nextBlockTime,
                   nextNow, promised, released, taken>>
    /\ UNCHANGED callerVars

Add(chunkSize) == addCall(MaxAdds, MaxTotal, chunkSize)

\* a run that leaves the limit alone is followed one block further
AddFixed(chunkSize) == addCall(MaxAdds + 1, MaxTotal, chunkSize)

\* Add to a limiter with room for more than its limit
AddWide(chunkSize) == addCall(MaxAdds, WideTotal, chunkSize)

\* ----------------------------------------------------- Take, streaming
\* mutant: the time is measured from the last release on the ledger
sinceLastRelease(now) ==
    IF replies.chain = <<>> THEN Second ELSE now - replies.chain[1].replied

\* elapsed time since the last event, one second when there was none
sinceLastEvent(now) == IF lastEvent = NoTime THEN Second ELSE now - lastEvent

\* mutant: the limit is not boosted
roundedMaxOutputNoBoost(since) ==
    IF since < Second
    THEN Min(Round(limit * since, Second), limit)
    ELSE limit

\* uint64(math.Round(maxOutput)) with maxOutput clamped to limitAsFloat;
\* boostedLimit is limit * 1.1, that is 11 * limit / 10
roundedMaxOutput(since) ==
    IF since < Second
    THEN Min(Round(11 * limit * since, 10 * Second), limit)
    ELSE limit

\* mutant: the output is not clamped to the bucket
clampToBucketUnclamped(output) == IF output = 0 THEN 1 ELSE output

\* mutant: an output rounded down to 0 stays 0
clampToBucketNoForce(output) ==
    IF output > currentBucketSize THEN currentBucketSize ELSE output

\* output clamped to the bucket, and 1 when it rounded down to 0
clampToBucket(output) ==
    IF output > currentBucketSize THEN currentBucketSize
    ELSE IF output = 0 THEN 1
    ELSE output

\* mutant: historicalOutput is used as calculated
clampHistoricalNone(historicalOutput) == historicalOutput

\* historicalOutput clamped to the limit
clampHistorical(historicalOutput) ==
    IF historicalOutput > limit THEN limit ELSE historicalOutput

\* mutant: the last second's output is ignored
clampToWindowNone(output, historicalOutput) == output

\* output cut down to what the last second leaves below the limit
clampToWindow(output, historicalOutput) ==
    IF UAdd(historicalOutput, output) > limit
    THEN USub(limit, historicalOutput)
    ELSE output

\* mutant: the wait is always a whole second
waitDelayFull(rl, now) == Second

\* the wait returned with a zero output
waitDelay(rl, now) ==
    IF lastTime(rl) = NoTime THEN Second ELSE Second - (now - lastTime(rl))

\* the limiter as a Take reading the clock at now finds it
Snapshot(now) ==
    [now |-> now, bucket |-> currentBucketSize, lastEvent |-> lastEvent,
     replies |-> replies, blocks |-> blocks, nextBlockTime |-> nextBlockTime,
     limit |-> limit, promised |-> promised]

\* what the caller was told to wait for
Promise(now, output, delay) ==
    IF output = 0 /\ delay > 0 THEN now + delay ELSE NoTime

TakeStream(now) ==
    /\ IF currentBucketSize = 0
       THEN /\ ret' = [op |-> "Take", val |-> 0, delay |-> 0]
            /\ promised' = NoTime
            /\ UNCHANGED <<currentBucketSize, lastEvent, replies, released>>
       ELSE LET cut == calculateAndCut(replies, now)
                historicalOutput == clampHistorical(cut.total)
                output == clampToWindow(
                              clampToBucket(roundedMaxOutput(sinceLastEvent(now))),
                              historicalOutput)
                delay == IF output > 0 THEN 0 ELSE waitDelay(cut.list, now)
            IN  /\ currentBucketSize' = USub(currentBucketSize, output)
                /\ replies' = IF output > 0
                              THEN repliesAdd(cut.list, output, now)
                              ELSE cut.list
                /\ lastEvent' = now
                /\ ret' = [op |-> "Take", val |-> output, delay |-> delay]
                /\ promised' = Promise(now, output, delay)
                /\ released' = [released EXCEPT ![now] = @ + output]
    /\ UNCHANGED <<blocks, nextBlockTime>>

\* ------------------------------------------------------ Take, by block
\* mutant: the time already served is not taken off the wait
blockOverTimeUnserved(rl, now, knownSize) == (knownSize * Second) \div limit

\* the wait setNextBlockTime computes for knownSize released in the last second
blockOverTime(rl, now, knownSize) ==
    LET overTime == (knownSize * Second) \div limit
        oldestRecordTime == lastTime(rl)
    IN  IF oldestRecordTime = NoTime
        THEN overTime
        ELSE IF overTime - (now - oldestRecordTime) < 1
             THEN 1
             ELSE overTime - (now - oldestRecordTime)

\* mutant: the caller is told to wait one second, whatever went out
setNextBlockTimeSecond(rl, now, knownSize) == now + Second

\* the time the caller has to wait for
setNextBlockTime(rl, now, knownSize) == now + blockOverTime(rl, now, knownSize)

\* mutant: a second that has reached the limit holds the block back
underLimitStrict(previousSecondSize) == previousSecondSize < limit

\* mutant: the last second is never over the limit
underLimitAlways(previousSecondSize) == TRUE

\* the block may go out when no more than the limit went out in the last second
underLimit(previousSecondSize) == previousSecondSize <= limit

\* doTakeByBlock reading the clock at now, on the ledger rl, the queue bs and
\* the eligible time nbt: what is left of them, and what is returned
blockTake(rl, bs, nbt, now) ==
    IF nbt # NoTime /\ now < nbt
    THEN [replies |-> rl, blocks |-> bs, nextBlockTime |-> nbt,
          val |-> 0, delay |-> nbt - now]
    ELSE LET cut == calculateAndCut(rl, now)
             previousSecondSize == cut.total
         IN  IF underLimit(previousSecondSize)
             THEN IF Len(bs) = 0
                  THEN [replies |-> cut.list, blocks |-> bs,
                        nextBlockTime |-> NoTime, val |-> 0, delay |-> 0]
                  ELSE LET blockSize == bs[1]
                           added1 == repliesAdd(cut.list, blockSize, now)
                           totalThisSecond == UAdd(blockSize, previousSecondSize)
                       IN  [replies |-> added1, blocks |-> Tail(bs),
                            nextBlockTime |->
                                IF totalThisSecond > limit
                                THEN setNextBlockTime(added1, now, totalThisSecond)
                                ELSE NoTime,
                            val |-> blockSize, delay |-> 0]
             ELSE [replies |-> cut.list, blocks |-> bs,
                   nextBlockTime |->
                       setNextBlockTime(cut.list, now, previousSecondSize),
                   val |-> 0,
                   delay |-> blockOverTime(cut.list, now, previousSecondSize)]

doTakeByBlock(now) ==
    LET taken1 == blockTake(replies, blocks, nextBlockTime, now)
    IN  /\ replies' = taken1.replies
        /\ blocks' = taken1.blocks
        /\ nextBlockTime' = taken1.nextBlockTime
        /\ ret' = [op |-> "Take", val |-> taken1.val, delay |-> taken1.delay]
        /\ promised' = Promise(now, taken1.val, taken1.delay)
        /\ released' = [released EXCEPT ![now] = @ + taken1.val]
        /\ UNCHANGED <<currentBucketSize, lastEvent>>

\* Take, the clock read as now
takeCall(now) ==
    /\ IF takeByBlock THEN doTakeByBlock(now) ELSE TakeStream(now)
    /\ pre' = Snapshot(now)
    /\ taken' = IF takeByBlock /\ ret'.val > 0 THEN Append(taken, ret'.val) ELSE taken
    /\ UNCHANGED <<takeByBlock, limit, nextNow, added, totalAdded>>

Take == takeCall(nextNow) /\ UNCHANGED callerVars

\* ------------------------------------------------- the limit, the size
GetLimit ==
    /\ ret' = [op |-> "GetLimit", val |-> limit, delay |-> 0]
    /\ pre' = NoPre
    /\ UNCHANGED callerVars
    /\ UNCHANGED <<limiterVars, nextNow, promised, released, added, taken,
                   totalAdded>>

setLimitCall(nLimit) ==
    /\ limit' = limitOrOne(nLimit)
    /\ ret' = [op |-> "SetLimit", val |-> limit, delay |-> 0]
    /\ pre' = NoPre
    /\ UNCHANGED <<takeByBlock, currentBucketSize, lastEvent, replies, blocks,
                   nextBlockTime, nextNow, promised, released, added, taken,
                   totalAdded>>

SetLimit(nLimit) == setLimitCall(nLimit) /\ UNCHANGED callerVars

GetBucketSize ==
    /\ ret' = [op |-> "GetBucketSize", val |-> currentBucketSize, delay |-> 0]
    /\ pre' = NoPre
    /\ UNCHANGED callerVars
    /\ UNCHANGED <<limiterVars, nextNow, promised, released, added, taken,
                   totalAdded>>

\* ------------------------------------------------------------ the clock
\* mc.nextNow = mc.nextNow.Add(1)
Advance ==
    /\ nextNow < MaxTime
    /\ nextNow' = nextNow + 1
    /\ ret' = [op |-> "Advance", val |-> 0, delay |-> 0]
    /\ pre' = NoPre
    /\ UNCHANGED callerVars
    /\ UNCHANGED <<limiterVars, promised, released, added, taken, totalAdded>>

\* -------------------------------------------------------------- threads
\* the limiter, the clock and the history
calledVars == <<limiterVars, nextNow, ret, pre, promised, released, added,
                taken, totalAdded>>

\* mutant: Lock does not wait for the thread that holds the lock
canLockAlways(holder) == TRUE

\* ld.lock.Lock() returns when no thread holds the lock
canLock(holder) == holder = NoThread

\* ld.lock.Lock() at the top of a call, and what the call reads first
lockCall(th, pc, arg, tmp) ==
    /\ locals[th].pc = "idle"
    /\ canLock(lock)
    /\ lock' = th
    /\ locals' = [locals EXCEPT ![th] = [pc |-> pc, arg |-> arg, tmp |-> tmp]]

\* mutant: the call returns with the lock still held
unlockReturnHeld(th) ==
    /\ lock' = lock
    /\ locals' = [locals EXCEPT ![th] = Idle]

\* the deferred ld.lock.Unlock() as the call returns
unlockReturn(th) ==
    /\ lock' = NoThread
    /\ locals' = [locals EXCEPT ![th] = Idle]

\* Add: the lock, and currentSize := ld.currentBucketSize (the slice that
\* append reads)
ThreadAddLock(th, chunkSize) ==
    /\ Len(added) < MaxAdds
    /\ totalAdded + chunkSize <= MaxTotal
    /\ lockCall(th, "addRead", chunkSize,
                IF takeByBlock THEN blocks ELSE currentBucketSize)
    /\ UNCHANGED <<calledVars, consumer>>

\* Add: the new size, or the new slice, is stored; the call returns
ThreadAddWrite(th) ==
    /\ locals[th].pc = "addRead"
    /\ IF takeByBlock
       THEN /\ blocks' = appendBlock(locals[th].tmp, locals[th].arg)
            /\ added' = Append(added, locals[th].arg)
            /\ UNCHANGED currentBucketSize
       ELSE /\ currentBucketSize' = UAdd(locals[th].tmp, locals[th].arg)
            /\ UNCHANGED <<blocks, added>>
    /\ totalAdded' = totalAdded + locals[th].arg
    /\ ret' = [op |-> "Add", val |-> 0, delay |-> 0]
    /\ pre' = NoPre
    /\ unlockReturn(th)
    /\ UNCHANGED <<takeByBlock, limit, lastEvent, replies, nextBlockTime,
                   nextNow, promised, released, taken, consumer>>

\* Take: the lock; streaming, an empty bucket returns at once; else
\* now := ld.clock.Now()
ThreadTakeLock(th) ==
    /\ locals[th].pc = "idle"
    /\ canLock(lock)
    /\ IF ~takeByBlock /\ currentBucketSize = 0
       THEN /\ takeCall(nextNow)
            /\ UNCHANGED callerVars
       ELSE /\ lockCall(th, "takeClock", 0, nextNow)
            /\ UNCHANGED <<calledVars, consumer>>

\* Take: the rest of the call, with the clock as it was read
ThreadTakeBody(th) ==
    /\ locals[th].pc = "takeClock"
    /\ takeCall(locals[th].tmp)
    /\ unlockReturn(th)
    /\ UNCHANGED consumer

\* SetLimit, from Lock to Unlock
ThreadSetLimit(th, nLimit) ==
    /\ locals[th].pc = "idle"
    /\ canLock(lock)
    /\ setLimitCall(nLimit)
    /\ UNCHANGED callerVars

\* the clock of a threaded run, followed for a second and a half
ThreadAdvance == nextNow < Second + Second \div 2 /\ Advance

\* ------------------------------------------------------ the consumer loop
\* for { took, delay := limiter.Take(); ... time.Sleep(delay) ... }
LoopStarted == consumer.calls > 0

\* the loop has been answered (0, 0) with nothing left in the limiter
LoopDone ==
    /\ LoopStarted
    /\ ret = [op |-> "Take", val |-> 0, delay |-> 0]
    /\ currentBucketSize = 0
    /\ blocks = <<>>

\* streaming, the clock leaves room for the loop to empty the bucket: a
\* second for each element, less the first when nothing was ever released
Room ==
    \/ takeByBlock
    \/ nextNow + Second * (IF lastEvent = NoTime THEN currentBucketSize - 1
                           ELSE currentBucketSize) <= MaxTime

\* Add, Take and the clock before the loop starts, followed for a second
EarlierAdd(chunkSize) == ~LoopStarted /\ Add(chunkSize)

EarlierTake == ~LoopStarted /\ Take

EarlierAdvance == ~LoopStarted /\ nextNow < Second /\ Advance

\* took, delay := limiter.Take()
LoopTake ==
    /\ ~LoopDone
    /\ IF LoopStarted THEN promised = NoTime \/ nextNow = promised ELSE Room
    /\ takeCall(nextNow)
    /\ consumer' = IF LoopStarted
                   THEN [consumer EXCEPT !.calls = @ + 1]
                   ELSE [calls |-> 1, start |-> nextNow,
                         size |-> currentBucketSize,
                         fresh |-> lastEvent = NoTime /\ replies = EmptyReplies]
    /\ UNCHANGED <<lock, locals>>

\* time.Sleep(delay), the clock being the settable one
LoopSleep ==
    /\ LoopStarted
    /\ promised # NoTime
    /\ nextNow < promised
    /\ promised <= MaxTime
    /\ nextNow' = promised
    /\ ret' = [op |-> "Advance", val |-> 0, delay |-> 0]
    /\ pre' = NoPre
    /\ UNCHANGED <<limiterVars, promised, released, added, taken, totalAdded,
                   callerVars>>

Next ==
    \/ \E chunkSize \in 0..MaxChunk : Add(chunkSize)
    \/ Take
    \/ GetLimit
    \/ \E nLimit \in 0..MaxLimit : SetLimit(nLimit)
    \/ GetBucketSize
    \/ Advance

\* the calls of a run that leaves the limit as New set it
NextFixed ==
    \/ \E chunkSize \in 0..MaxChunk : AddFixed(chunkSize)
    \/ Take
    \/ GetLimit
    \/ GetBucketSize
    \/ Advance

SpecStream == InitStream /\ [][Next]_vars

SpecBlock == InitBlock /\ [][Next]_vars

SpecStreamFixed == InitStream /\ [][NextFixed]_vars

SpecBlockFixed == InitBlock /\ [][NextFixed]_vars

\* the calls that change the limiter, and the clock
NextChanging ==
    \/ \E chunkSize \in 0..MaxChunk : Add(chunkSize)
    \/ Take
    \/ \E nLimit \in 0..MaxLimit : SetLimit(nLimit)
    \/ Advance

\* producers and consumers on one limiter, the clock running
NextThreads ==
    \/ \E th \in Producers, chunkSize \in 0..MaxChunk : ThreadAddLock(th, chunkSize)
    \/ \E th \in Producers : ThreadAddWrite(th)
    \/ \E th \in Consumers : ThreadTakeLock(th)
    \/ \E th \in Consumers : ThreadTakeBody(th)
    \/ \E th \in Consumers, nLimit \in 0..MaxLimit : ThreadSetLimit(th, nLimit)
    \/ ThreadAdvance

SpecThreads == InitStream /\ [][NextThreads]_vars

\* a history of Adds, Takes and clock advances, then the consumer loop alone
NextLoop ==
    \/ \E chunkSize \in 0..MaxChunk : EarlierAdd(chunkSize)
    \/ EarlierTake
    \/ EarlierAdvance
    \/ LoopTake
    \/ LoopSleep

\* the loop, once started, goes on calling and sleeping
LoopFairness == WF_vars(LoopTake) /\ WF_vars(LoopSleep)

SpecLoopStream == InitStream /\ [][NextLoop]_vars /\ LoopFairness

SpecLoopBlock == InitBlock /\ [][NextLoop]_vars /\ LoopFairness

\* the streaming limiter with limits up to WideLimit, the limit left alone
InitWide == (\E limit0 \in 0..WideLimit : New(limit0, FALSE)) /\ History

\* the clock followed for a second
SecondAdvance == nextNow < Second /\ Advance

\* the clock followed for a second and a half
ShortAdvance == nextNow < Second + Second \div 2 /\ Advance

NextWide ==
    \/ \E chunkSize \in 1..WideTotal : AddWide(chunkSize)
    \/ Take
    \/ SecondAdvance

SpecStreamWide == InitWide /\ [][NextWide]_vars

\* the calls that change the limiter, over a second and a half
NextLedger ==
    \/ \E chunkSize \in 0..MaxChunk : Add(chunkSize)
    \/ Take
    \/ \E nLimit \in 0..MaxLimit : SetLimit(nLimit)
    \/ ShortAdvance

\* a limiter of either kind, its ledger filled and pruned
SpecLedger == (InitStream \/ InitBlock) /\ [][NextLedger]_vars

\* Add, Take and the clock: a run that leaves the limit as New set it and
\* asks for nothing else
NextTaking ==
    \/ \E chunkSize \in 0..MaxChunk : AddFixed(chunkSize)
    \/ Take
    \/ Advance

SpecBlockTaking == InitBlock /\ [][NextTaking]_vars

\* a limit above half the range of uint64
HugeLimit == (5 * UintMod) \div 8

\* New(limit, WithClock(mc)) with such a limit
InitHuge == New(HugeLimit, FALSE) /\ History

\* Add of half the limit or the whole of it, the bucket kept within uint64
AddHuge(chunkSize) ==
    /\ currentBucketSize + chunkSize < UintMod
    /\ addCall(MaxAdds, 2 * HugeLimit, chunkSize)

\* Take, no more than once at one reading of the clock
TakeHuge == (lastEvent = NoTime \/ lastEvent < nextNow) /\ Take

NextHuge ==
    \/ \E chunkSize \in {HugeLimit \div 2, HugeLimit} : AddHuge(chunkSize)
    \/ TakeHuge
    \/ ShortAdvance

SpecStreamHuge == InitHuge /\ [][NextHuge]_vars

\* every call of the interface, over a second
NextCalls ==
    \/ \E chunkSize \in 0..MaxChunk : Add(chunkSize)
    \/ Take
    \/ GetLimit
    \/ \E nLimit \in 0..MaxLimit : SetLimit(nLimit)
    \/ GetBucketSize
    \/ SecondAdvance

\* a limiter of either kind, every call made on it
SpecCalls == (InitStream \/ InitBlock) /\ [][NextCalls]_vars

\* ------------------------------------------- callers waiting on the lock
\* the threads that have called Add and not returned
AddsInFlight == {th \in Threads : locals[th].pc \in {"addLock", "addRead"}}

\* the sum of the chunk sizes those calls were passed
RECURSIVE SumArgs(_)
SumArgs(S) ==
    IF S = {} THEN 0
    ELSE LET th == CHOOSE x \in S : TRUE
         IN  locals[th].arg + SumArgs(S \ {th})

\* a thread outside any call makes one: it stands before ld.lock.Lock()
callStep(th, pc, arg) ==
    /\ locals[th].pc = "idle"
    /\ locals' = [locals EXCEPT ![th] = [pc |-> pc, arg |-> arg, tmp |-> 0]]
    /\ UNCHANGED <<calledVars, lock, consumer>>

\* ld.lock.Lock() returns to a thread that waits for it: no thread, the
\* caller included, holds the lock
lockStep(th, from, to, tmp) ==
    /\ locals[th].pc = from
    /\ canLock(lock)
    /\ lock' = th
    /\ locals' = [locals EXCEPT ![th] = [pc |-> to, arg |-> locals[th].arg,
                                        tmp |-> tmp]]
    /\ UNCHANGED <<calledVars, consumer>>

CallAdd(th, chunkSize) ==
    /\ Len(added) + Cardinality(AddsInFlight) < MaxAdds
    /\ totalAdded + SumArgs(AddsInFlight) + chunkSize <= MaxTotal
    /\ callStep(th, "addLock", chunkSize)

LockAdd(th) ==
    lockStep(th, "addLock", "addRead",
             IF takeByBlock THEN blocks ELSE currentBucketSize)

\* Take reads ld.takeByBlock before any lock and goes to doTakeByBlock, or
\* on to its own ld.lock.Lock()
CallTake(th) ==
    callStep(th, IF takeByBlock THEN "doTakeByBlock" ELSE "takeLock", 0)

\* the Lock of Take, or of doTakeByBlock, and now := ld.clock.Now()
LockTake(th) ==
    \/ lockStep(th, "takeLock", "takeClock", nextNow)
    \/ lockStep(th, "doTakeByBlock", "takeClock", nextNow)

CallGetLimit(th) == callStep(th, "getLimitLock", 0)

LockGetLimit(th) == lockStep(th, "getLimitLock", "getLimit", 0)

ReturnGetLimit(th) ==
    /\ locals[th].pc = "getLimit"
    /\ ret' = [op |-> "GetLimit", val |-> limit, delay |-> 0]
    /\ pre' = NoPre
    /\ unlockReturn(th)
    /\ UNCHANGED <<limiterVars, nextNow, promised, released, added, taken,
                   totalAdded, consumer>>

CallSetLimit(th, nLimit) == callStep(th, "setLimitLock", nLimit)

LockSetLimit(th) == lockStep(th, "setLimitLock", "setLimit", 0)

ReturnSetLimit(th) ==
    /\ locals[th].pc = "setLimit"
    /\ setLimitCall(locals[th].arg)
    /\ unlockReturn(th)
    /\ UNCHANGED consumer

CallGetBucketSize(th) == callStep(th, "getBucketSizeLock", 0)

LockGetBucketSize(th) == lockStep(th, "getBucketSizeLock", "getBucketSize", 0)

ReturnGetBucketSize(th) ==
    /\ locals[th].pc = "getBucketSize"
    /\ ret' = [op |-> "GetBucketSize", val |-> currentBucketSize, delay |-> 0]
    /\ pre' = NoPre
    /\ unlockReturn(th)
    /\ UNCHANGED <<limiterVars, nextNow, promised, released, added, taken,
                   totalAdded, consumer>>

\* the threads that call: a producer and the consumers
Callers == {"p1"} \cup Consumers

\* a thread makes a call: the producer Adds and asks for the size, the
\* consumers Take, one of them also reads the limit, the other sets it to 0
Call(th) ==
    \/ th \in Producers /\ \E chunkSize \in {1, MaxChunk} : CallAdd(th, chunkSize)
    \/ th \in Producers /\ CallGetBucketSize(th)
    \/ th \in Consumers /\ CallTake(th)
    \/ th = "c1" /\ CallGetLimit(th)
    \/ th = "c2" /\ CallSetLimit(th, 0)

\* the one ld.lock.Lock() of the call the thread is in
Lock(th) ==
    \/ LockAdd(th)
    \/ LockTake(th)
    \/ LockGetLimit(th)
    \/ LockSetLimit(th)
    \/ LockGetBucketSize(th)

\* the rest of the call, to its return and the deferred ld.lock.Unlock()
Return(th) ==
    \/ ThreadAddWrite(th)
    \/ ThreadTakeBody(th)
    \/ ReturnGetLimit(th)
    \/ ReturnSetLimit(th)
    \/ ReturnGetBucketSize(th)

NextCallers ==
    \/ \E th \in Callers : Call(th)
    \/ \E th \in Callers : Lock(th)
    \/ \E th \in Callers : Return(th)

\* a thread inside a call keeps running, and sync.Mutex hands the lock to
\* every thread that waits for it
CallerFairness ==
    \A th \in Callers : SF_vars(Lock(th)) /\ WF_vars(Return(th))

SpecCallers ==
    (InitStream \/ InitBlock) /\ [][NextCallers]_vars /\ CallerFairness

\* a limiter of either kind
SpecEither == (InitStream \/ InitBlock) /\ [][NextChanging]_vars

\* ================================================================ claims
\* all that Take has handed out
TotalReleased == SumReleased(released, 0, MaxTime)

\* what the history says went out in the second before the last Take acted
\* (meaningful when ret.op = "Take": the clock still reads pre.now)
Trailing == WindowReleased(released, pre.now) - ret.val

C2_Conservation ==
    /\ currentBucketSize = totalAdded - TotalReleased
    /\ ret.op = "GetBucketSize" => ret.val = totalAdded - TotalReleased
    /\ ret.op = "Take" => ret.val <= pre.bucket

\* GetBucketSize after Adds, Takes and a SetLimit, part of the bucket released
C2_Witness ==
    /\ ret.op = "GetBucketSize"
    /\ ret.val >= 1
    /\ TotalReleased >= 2
    /\ totalAdded = MaxTotal
    /\ limit = 1

C5_WaitHonoured ==
    (/\ ret.op = "Take"
     /\ pre.promised # NoTime
     /\ pre.now >= pre.promised
     /\ pre.bucket > 0)
    => (ret.val >= 1 /\ ret.delay = 0)

\* the next Take comes exactly when the wait is over and releases
C5_Witness ==
    /\ ret.op = "Take"
    /\ pre.promised # NoTime
    /\ pre.now = pre.promised
    /\ pre.bucket > 0
    /\ ret.val >= 1
    /\ ret.delay = 0

\* C6: streaming: Take returns (0, 0) exactly when the bucket is empty at the
\* call, whatever SetLimit did before.
C6_ZeroZeroIffEmpty ==
    ret.op = "Take" => ((ret.val = 0 /\ ret.delay = 0) <=> pre.bucket = 0)

\* a Take on a non-empty bucket after SetLimit went below what the last second
\* had released: nothing released, a positive wait
C6_Witness ==
    /\ ret.op = "Take"
    /\ pre.bucket > 0
    /\ ret.val = 0
    /\ ret.delay > 0
    /\ Trailing > pre.limit

RECURSIVE NonZero(_)
\* the non-zero elements of a sequence, in order
NonZero(q) ==
    IF q = <<>> THEN <<>>
    ELSE IF Head(q) = 0 THEN NonZero(Tail(q))
    ELSE <<Head(q)>> \o NonZero(Tail(q))

\* C3: by block: the non-zero amounts Take returned are, in order, the
\* non-zero sizes of the first blocks passed to Add, and the queue holds
\* exactly the blocks passed to Add after those.
C3_BlockFifo ==
    \E k \in 0..Len(added) :
        /\ blocks = SubSeq(added, k + 1, Len(added))
        /\ taken = NonZero(SubSeq(added, 1, k))

\* two blocks of different sizes have come back, the second added after the
\* first had been taken
C3_Witness ==
    /\ ret.op = "Take"
    /\ Len(taken) = 2
    /\ taken[1] # taken[2]
    /\ pre.blocks = <<taken[2]>>
    /\ added = taken

\* C7 as stated: by block: whenever Take returns (0, 0) no block was queued
\* at the call and the call dequeued nothing.
C7_Original ==
    (ret.op = "Take" /\ ret.val = 0 /\ ret.delay = 0)
    => (pre.blocks = <<>> /\ blocks = <<>>)

\* the timestamp of the oldest entry of a ledger that has entries
OldestReplied(rl) ==
    CHOOSE t \in {rl.chain[i].replied : i \in 1..Len(rl.chain)} :
        \A i \in 1..Len(rl.chain) : t <= rl.chain[i].replied

\* the Take found no eligible time still ahead
Eligible == pre.nextBlockTime = NoTime \/ pre.now >= pre.nextBlockTime

\* C8: by block: a Take whose block brings the trailing second's total T over
\* the limit L stores the eligible time (oldest ledger entry of the window) +
\* T/L seconds; a Take before a stored eligible time returns (0, eligible time
\* - now) and leaves queue, ledger and eligible time as they were.
C8_EligibleTime ==
    ret.op = "Take" =>
        /\ (/\ Eligible
            /\ Len(blocks) < Len(pre.blocks)
            /\ WindowReleased(released, pre.now) > limit)
           => nextBlockTime = OldestReplied(replies)
                              + (WindowReleased(released, pre.now) * Second) \div limit
        /\ ~Eligible
           => /\ ret.val = 0
              /\ ret.delay = pre.nextBlockTime - pre.now
              /\ blocks = pre.blocks
              /\ replies = pre.replies
              /\ nextBlockTime = pre.nextBlockTime

\* a Take before the eligible time that a block stored when it went out over
\* the limit, an older block still in the window then
C8_Witness ==
    /\ ret.op = "Take"
    /\ ~Eligible
    /\ ret.delay = pre.nextBlockTime - pre.now
    /\ Len(replies.chain) = 2
    /\ replies.chain[2].reply >= 1
    /\ replies.chain[2].replied < replies.chain[1].replied
    /\ replies.chain[2].replied + Second > pre.now
    /\ nextBlockTime = replies.chain[2].replied
                       + ((replies.chain[1].reply + replies.chain[2].reply) * Second)
                         \div limit

\* C9: by block: with no eligible time ahead, no more than the limit released
\* in the trailing second and a block queued, Take returns (size of the head
\* block, 0) and dequeues that block, whatever its size.
C9_HeadReleased ==
    (/\ ret.op = "Take"
     /\ Eligible
     /\ Trailing <= pre.limit
     /\ pre.blocks # <<>>)
    => /\ ret.val = Head(pre.blocks)
       /\ ret.delay = 0
       /\ blocks = Tail(pre.blocks)

\* a block larger than the limit goes out on top of a second already at the limit
C9_Witness ==
    /\ ret.op = "Take"
    /\ Eligible
    /\ Trailing = pre.limit
    /\ pre.blocks # <<>>
    /\ ret.val > pre.limit
    /\ blocks = Tail(pre.blocks)

\* C10 as stated: by block: a Take that finds the trailing second's total at
\* or above the limit releases nothing, has an eligible time stored, returns
\* a positive wait and leaves the queue unchanged.
C10_Original ==
    (ret.op = "Take" /\ Trailing >= pre.limit)
    => /\ ret.val = 0
       /\ ret.delay > 0
       /\ blocks = pre.blocks
       /\ nextBlockTime # NoTime

\* C10 amended: by block: a Take that finds the trailing second's total above
\* the limit releases nothing, has the eligible time now + wait stored,
\* returns (0, wait) with wait > 0 and leaves the queue unchanged.
C10_OverLimitWaits ==
    (ret.op = "Take" /\ Trailing > pre.limit)
    => /\ ret.val = 0
       /\ ret.delay > 0
       /\ blocks = pre.blocks
       /\ nextBlockTime = pre.now + ret.delay

\* with no eligible time ahead the Take finds the last second over the limit
C10_Witness ==
    /\ ret.op = "Take"
    /\ Eligible
    /\ Trailing > pre.limit
    /\ pre.blocks # <<>>
    /\ ret.delay > 0

\* C11 as stated: by block, limit as constructed: when Take has returned
\* (0, d), d > 0, with a block queued, the next Take, made with the clock
\* advanced by exactly d, returns (head block, 0) and dequeues it.
C11_Original ==
    (/\ ret.op = "Take"
     /\ pre.promised # NoTime
     /\ pre.now = pre.promised
     /\ pre.blocks # <<>>)
    => /\ ret.val = Head(pre.blocks)
       /\ ret.delay = 0
       /\ blocks = Tail(pre.blocks)

\* C11 amended: by block, limit as constructed: when Take has returned (0, d),
\* d > 0, with a block queued, the next Take, made with the clock advanced by
\* exactly d, returns (head block, 0) and dequeues it if no more than the
\* limit went out in the second trailing it; if more did, it returns (0, d')
\* with d' > 0 again and leaves the queue as it was.
C11_WaitThenRelease ==
    (/\ ret.op = "Take"
     /\ pre.promised # NoTime
     /\ pre.now = pre.promised
     /\ pre.blocks # <<>>)
    => IF Trailing <= pre.limit
       THEN /\ ret.val = Head(pre.blocks)
            /\ ret.delay = 0
            /\ blocks = Tail(pre.blocks)
       ELSE /\ ret.val = 0
            /\ ret.delay > 0
            /\ blocks = pre.blocks

\* the wait is over, the second before it is back at the limit, and the head
\* block goes out
C11_Witness ==
    /\ ret.op = "Take"
    /\ pre.promised # NoTime
    /\ pre.now = pre.promised
    /\ pre.blocks # <<>>
    /\ Trailing = pre.limit
    /\ ret.val = Head(pre.blocks)
    /\ ret.val >= 1
    /\ blocks = Tail(pre.blocks)

\* the ticks of the second trailing the last Take at which something had
\* been handed out before it
WindowTicks ==
    {t \in Ticks : /\ t > pre.now - Second
                   /\ t <= pre.now
                   /\ released[t] - (IF t = pre.now THEN ret.val ELSE 0) > 0}

NewestRelease == CHOOSE t \in WindowTicks : \A u \in WindowTicks : u <= t

OldestRelease == CHOOSE t \in WindowTicks : \A u \in WindowTicks : u >= t

\* streaming Take found the bucket non-empty and released nothing
StreamZeroRelease ==
    /\ ret.op = "Take"
    /\ ~takeByBlock
    /\ pre.bucket > 0
    /\ ret.val = 0

\* C12 as stated: streaming: when Take on a non-empty bucket releases 0, the
\* wait is one second minus the time since the newest release of the trailing
\* second, or one second if nothing was released in it.
C12_Original ==
    StreamZeroRelease
    => ret.delay = IF WindowTicks = {}
                   THEN Second
                   ELSE Second - (pre.now - NewestRelease)

\* C12 amended: streaming: when Take on a non-empty bucket releases 0,
\* something was released in the trailing second and the wait is one second
\* minus the time since the oldest release of that second.
C12_WaitFromOldest ==
    StreamZeroRelease
    => /\ WindowTicks # {}
       /\ ret.delay = Second - (pre.now - OldestRelease)

\* nothing released, with releases at two different instants in the window
C12_Witness ==
    /\ StreamZeroRelease
    /\ WindowTicks # {}
    /\ OldestRelease < NewestRelease
    /\ ret.delay = Second - (pre.now - OldestRelease)

\* C13: streaming: when Take on a non-empty bucket releases 0 the trailing
\* second is full, the bucket is left as it was, and the wait d runs until
\* the oldest release of the trailing second is exactly one second old, with
\* 0 < d <= one second.
C13_FullWindowWait ==
    StreamZeroRelease
    => /\ Trailing >= pre.limit
       /\ currentBucketSize = pre.bucket
       /\ WindowTicks # {}
       /\ pre.now + ret.delay = OldestRelease + Second
       /\ 0 < ret.delay
       /\ ret.delay <= Second

\* the window was filled by releases at several instants and the oldest of
\* them is one tick short of a second old
C13_Witness ==
    /\ StreamZeroRelease
    /\ Cardinality(WindowTicks) >= 2
    /\ Trailing = pre.limit
    /\ currentBucketSize = pre.bucket
    /\ ret.delay = 1
    /\ OldestRelease = pre.now - Second + 1

\* nothing is left to hand out at t: the bucket is empty, or the queue is
\* empty, no eligible time lies ahead of t, and no more than the limit went
\* out in the second up to t
IdleAt(t) ==
    IF takeByBlock
    THEN /\ blocks = <<>>
         /\ (nextBlockTime = NoTime \/ nextBlockTime <= t)
         /\ WindowReleased(released, t) <= limit
    ELSE currentBucketSize = 0

\* the last Take found the limiter idle
IdleBefore ==
    IF takeByBlock
    THEN /\ pre.blocks = <<>>
         /\ (pre.nextBlockTime = NoTime \/ pre.nextBlockTime <= pre.now)
         /\ Trailing <= pre.limit
    ELSE pre.bucket = 0

\* the ledger and the eligible time as an idle Take by block at t leaves them
IdleTaken(rl, nbt, t) ==
    [replies |-> calculateAndCut(rl, t).list,
     nextBlockTime |-> IF nbt # NoTime /\ nbt <= t THEN NoTime ELSE nbt]

\* a Take by block now returns the same and leaves the same, whether or not
\* an idle Take was made at t (which needs no eligible time ahead of t, and
\* makes a difference only when it cuts the ledger or clears the eligible
\* time)
SameAfterIdle(t) ==
    \/ nextBlockTime # NoTime /\ nextBlockTime > t
    \/ nextBlockTime = NoTime /\ calculateAndCut(replies, t).list = replies
    \/ LET with == IdleTaken(replies, nextBlockTime, t)
           a == blockTake(replies, blocks, nextBlockTime, nextNow)
           b == blockTake(with.replies, blocks, with.nextBlockTime, nextNow)
       IN  /\ b.val = a.val
           /\ b.delay = a.delay
           /\ b.blocks = a.blocks
           /\ b.replies = a.replies
           /\ b.nextBlockTime = a.nextBlockTime

\* C14: a Take that finds the limiter idle (streaming: bucket empty; by
\* block: queue empty, no eligible time ahead, no more than the limit out in
\* the trailing second) returns (0, 0) and leaves the bucket, the queue and
\* the last-event time as they were, and the limiter idle; an idle limiter
\* stays idle as the clock advances; streaming, the idle Take changes nothing
\* at all, and by block every later Take returns what it would have returned
\* without the idle Take.
C14_IdleTake ==
    /\ (ret.op = "Take" /\ IdleBefore)
       => /\ ret.val = 0
          /\ ret.delay = 0
          /\ currentBucketSize = pre.bucket
          /\ blocks = pre.blocks
          /\ lastEvent = pre.lastEvent
          /\ IdleAt(nextNow)
          /\ IF takeByBlock
             THEN /\ replies = IdleTaken(pre.replies, pre.nextBlockTime, pre.now).replies
                  /\ nextBlockTime = NoTime
             ELSE /\ replies = pre.replies
                  /\ nextBlockTime = pre.nextBlockTime
    /\ (IdleAt(nextNow) /\ nextNow < MaxTime) => IdleAt(nextNow + 1)
    /\ (takeByBlock /\ (replies # EmptyReplies \/ nextBlockTime # NoTime))
       => \A t \in 0..nextNow : SameAfterIdle(t)

\* by block, an idle Take has dropped ledger entries and the eligible time
C14_Witness ==
    /\ ret.op = "Take"
    /\ takeByBlock
    /\ IdleBefore
    /\ ret.val = 0
    /\ ret.delay = 0
    /\ pre.replies.chain # <<>>
    /\ replies.chain = <<>>
    /\ pre.nextBlockTime # NoTime
    /\ nextBlockTime = NoTime

\* C15: the limit is at least 1 in every reachable state, New(0) included;
\* SetLimit(n) returns the limit in force before it and leaves the limit n,
\* or 1 when n is 0; no other call changes the limit, and GetLimit returns it.
C15_Limit ==
    /\ limit >= 1
    /\ [][/\ limit' >= 1
          /\ IF ret'.op = "SetLimit"
             THEN \A n \in 0..MaxLimit :
                      SetLimit(n) => /\ ret'.val = limit
                                     /\ limit' = IF n = 0 THEN 1 ELSE n
             ELSE limit' = limit
          /\ ret'.op = "GetLimit" => ret'.val = limit']_vars

\* SetLimit has returned a limit above 1 and left the limit 1
C15_Witness ==
    /\ ret.op = "SetLimit"
    /\ ret.val > 1
    /\ limit = 1

\* what a bucket that was not empty and the time since the last event
\* allowed the last Take, the last second left aside
Allowance ==
    LET since == IF pre.lastEvent = NoTime THEN Second ELSE pre.now - pre.lastEvent
        output == roundedMaxOutput(since)
    IN  IF output > pre.bucket THEN pre.bucket
        ELSE IF output = 0 THEN 1
        ELSE output

LeftOfLimit == IF Trailing >= pre.limit THEN 0 ELSE pre.limit - Trailing

Holders == {th \in Threads : locals[th].pc # "idle"}

C18_LoopDrains ==
    /\ LoopStarted ~> LoopDone
    /\ [](LoopStarted => consumer.calls <= 2 * consumer.size + 1)
    /\ [](LoopDone => TotalReleased = totalAdded)

\* the loop has emptied a bucket of two or more that had been served before,
\* sleeping on the way
C18_Witness ==
    /\ LoopDone
    /\ ~takeByBlock
    /\ consumer.size >= 2
    /\ ~consumer.fresh
    /\ nextNow > consumer.start
    /\ TotalReleased = totalAdded

\* C20: streaming, limit 1 (New(1) or New(0)), the consumer loop started on a
\* limiter that had released nothing, with N >= 1 in the bucket: every Take
\* of the loop releases 0 or 1 and returns a wait of 0 or exactly one second,
\* and when the loop is done it has made exactly 2N calls, the last one
\* answered (0, 0), and the clock has advanced exactly N - 1 seconds.
C20_LimitOne ==
    (/\ ~takeByBlock
     /\ LoopStarted
     /\ consumer.fresh
     /\ consumer.size >= 1
     /\ limit = 1)
    => /\ ret.op = "Take" => /\ ret.val \in {0, 1}
                             /\ ret.delay \in {0, Second}
                             /\ ret.val = 1 => ret.delay = 0
       /\ LoopDone => /\ consumer.calls = 2 * consumer.size
                      /\ nextNow - consumer.start = (consumer.size - 1) * Second

\* a bucket of several elements has been emptied one element a second
C20_Witness ==
    /\ ~takeByBlock
    /\ LoopDone
    /\ consumer.fresh
    /\ limit = 1
    /\ consumer.size >= 2
    /\ consumer.calls = 2 * consumer.size
    /\ TotalReleased = consumer.size

\* the loop has been told to sleep past the last tick the clock is followed to
LoopOutOfTime == promised # NoTime /\ promised > MaxTime

\* a Take of the loop, by block, with a block queued: the head block comes
\* back, or a wait of at least the smallest duration that ends no earlier
\* than the wait announced before, the queue left alone
LoopStep ==
    (/\ LoopStarted
     /\ ret.op = "Take"
     /\ pre.blocks # <<>>)
    => \/ /\ ret.val = Head(pre.blocks)
          /\ ret.delay = 0
          /\ blocks = Tail(pre.blocks)
       \/ /\ ret.val = 0
          /\ ret.delay >= 1
          /\ blocks = pre.blocks
          /\ promised = pre.now + ret.delay
          /\ pre.promised # NoTime => promised >= pre.promised

\* C19: by block, limit as constructed: the consumer loop, once started with
\* no Add after that, comes to a Take answered (0, 0) on an empty queue
\* (within the time the clock is followed), having been handed every block
\* passed to Add, in order; until then each of its Takes hands out the head
\* block or a wait of finite length, at least the smallest duration, that
\* does not end before the wait announced earlier.
C19_BlockLoopDrains ==
    /\ LoopStarted ~> (LoopDone \/ LoopOutOfTime)
    /\ [](LoopDone => taken = NonZero(added))
    /\ []LoopStep

\* the loop has been handed two blocks and has slept for the second
C19_Witness ==
    /\ takeByBlock
    /\ LoopDone
    /\ consumer.calls >= 4
    /\ Len(taken) >= 2
    /\ taken = NonZero(added)
    /\ nextNow > consumer.start

\* by block, the run of the claim: a block of twice the limit was passed to
\* Add first, a block of one or more second, and no other
TwiceThenMore ==
    /\ takeByBlock
    /\ Len(added) = 2
    /\ added[1] = 2 * limit
    /\ added[2] >= 1

\* the first Take of that run: both blocks queued, nothing released before
FirstOfRun ==
    /\ TwiceThenMore
    /\ ret.op = "Take"
    /\ pre.blocks = added
    /\ pre.replies = EmptyReplies

\* the Take that follows the release of the first block, the second queued
SecondOfRun ==
    /\ TwiceThenMore
    /\ ret.op = "Take"
    /\ pre.blocks = <<added[2]>>
    /\ pre.promised = NoTime
    /\ Len(pre.replies.chain) = 1

\* the instant the first block of the run went out
FirstOut == pre.replies.chain[1].replied

\* a Take of that run made exactly when the wait returned before it is over
WaitedOfRun ==
    /\ TwiceThenMore
    /\ ret.op = "Take"
    /\ pre.blocks = <<added[2]>>
    /\ pre.promised # NoTime
    /\ pre.now = pre.promised

\* C21 as stated: by block, limit L, Add(2L) then Add(b): the first Take
\* returns (2L, 0); a second Take made immediately afterwards returns
\* (0, 1.5s); a Take made after waiting exactly that long returns (b, 0).
C21_Original ==
    /\ FirstOfRun => (ret.val = 2 * limit /\ ret.delay = 0)
    /\ (SecondOfRun /\ pre.now = FirstOut)
       => (ret.val = 0 /\ 2 * ret.delay = 3 * Second)
    /\ WaitedOfRun => (ret.val = added[2] /\ ret.delay = 0)

\* C21 amended: by block, limit L, Add(2L) then Add(b): the first Take
\* returns (2L, 0); a second Take made a time e < 2s after it returns
\* (0, 2s - e), that is (0, 2s) when made immediately and (0, 1.5s) when made
\* half a second later; a Take made after waiting exactly that long returns
\* (b, 0) and empties the queue.
C21_BlockScenario ==
    /\ FirstOfRun => (ret.val = 2 * limit /\ ret.delay = 0)
    /\ (SecondOfRun /\ pre.now < FirstOut + 2 * Second)
       => /\ ret.val = 0
          /\ ret.delay = 2 * Second - (pre.now - FirstOut)
          /\ pre.now = FirstOut => ret.delay = 2 * Second
          /\ 2 * (pre.now - FirstOut) = Second => 2 * ret.delay = 3 * Second
          /\ blocks = pre.blocks
    /\ WaitedOfRun => (ret.val = added[2] /\ ret.delay = 0 /\ blocks = <<>>)

\* the second block has gone out two seconds after the first, at the end of
\* the second and a half that a Take made half a second in was told to wait
C21_Witness ==
    /\ WaitedOfRun
    /\ ret.val = added[2]
    /\ taken = added
    /\ pre.now = FirstOut + 2 * Second
    /\ released[FirstOut] = 2 * limit

Max(a, b) == IF a > b THEN a ELSE b

\* the time since the last event as the last Take found it, one second when
\* there had been none
Elapsed == IF pre.lastEvent = NoTime THEN Second ELSE pre.now - pre.lastEvent

\* round(min(f * L * e / 1s, L)) in tenths: f is 1.1 below one second, 1 from
\* one second on
RateShare ==
    Round(Min((IF Elapsed < Second THEN 11 ELSE 10) * pre.limit * Elapsed,
              10 * Second * pre.limit),
          10 * Second)

C23_AtLeastOne ==
    (/\ ret.op = "Take"
     /\ ~takeByBlock
     /\ pre.bucket > 0
     /\ Trailing < pre.limit)
    => /\ ret.val >= 1
       /\ ret.delay = 0
       /\ pre.lastEvent = pre.now => (RateShare = 0 /\ ret.val = 1)

\* a second Take at the instant of the first, which had left part of the
\* bucket and part of the limit
C23_Witness ==
    /\ ret.op = "Take"
    /\ ~takeByBlock
    /\ pre.lastEvent = pre.now
    /\ pre.bucket >= 2
    /\ Trailing >= 1
    /\ Trailing < pre.limit
    /\ ret.val = 1
    /\ currentBucketSize = pre.bucket - 1

RECURSIVE LedgerAt(_, _)
\* the amounts of the entries of a chain that were recorded at t, summed
LedgerAt(chain, t) ==
    IF chain = <<>> THEN 0
    ELSE (IF Head(chain).replied = t THEN Head(chain).reply ELSE 0)
         + LedgerAt(Tail(chain), t)

\* the ledger holds the entries recorded in (t - 1s, t], and no other
HoldsWindow(rl, h, t) ==
    /\ \A i \in 1..Len(rl.chain) :
           /\ rl.chain[i].replied > t - Second
           /\ rl.chain[i].replied <= t
    /\ \A u \in Max(0, t - Second + 1)..t : LedgerAt(rl.chain, u) = h[u]

\* the last Take queried the ledger: streaming on a bucket that was not
\* empty, by block with no eligible time ahead
Queried ==
    /\ ret.op = "Take"
    /\ IF takeByBlock THEN Eligible ELSE pre.bucket > 0

\* C24: the clock never going back, the pruned ledger answers as the whole
\* history of releases would: in every reachable state a query made now
\* returns the sum of all amounts recorded in (now - 1s, now], an amount
\* recorded exactly one second ago left out, and leaves in the ledger the
\* entries of that window and no other; so did the query of the last Take,
\* whose ledger holds exactly the window once its own release is recorded.
C24_LedgerIsHistory ==
    /\ LET cut == calculateAndCut(replies, nextNow)
       IN  /\ cut.total = WindowReleased(released, nextNow)
           /\ HoldsWindow(cut.list, released, nextNow)
    /\ Queried
       => /\ calculateAndCut(pre.replies, pre.now).total = Trailing
          /\ HoldsWindow(replies, released, pre.now)

\* the query of the last Take dropped an entry recorded exactly one second
\* before it and kept a later one
C24_Witness ==
    /\ Queried
    /\ pre.now >= Second
    /\ released[pre.now - Second] >= 1
    /\ Len(pre.replies.chain) >= 2
    /\ pre.replies.chain[Len(pre.replies.chain)].replied = pre.now - Second
    /\ Trailing >= 1
    /\ Len(replies.chain) < Len(pre.replies.chain)

\* C25: in every reachable state of either limiter, the clock never going
\* back: the entries of the ledger are in non-increasing order of timestamp
\* from head to tail, head is nil exactly when tail is nil, and tail is the
\* last entry reachable from head.
C25_LedgerShape ==
    /\ \A i \in 1..Len(replies.chain) - 1 :
           replies.chain[i].replied >= replies.chain[i + 1].replied
    /\ replies.chain = <<>> <=> replies.tail = 0
    /\ replies.tail = Len(replies.chain)

\* a Take has cut the oldest entry off the ledger and put a newer entry in
\* front of what was left
C25_Witness ==
    /\ ret.op = "Take"
    /\ Len(pre.replies.chain) = 2
    /\ pre.replies.chain[2].replied < pre.replies.chain[1].replied
    /\ Len(replies.chain) = 2
    /\ replies.tail = 2
    /\ replies.chain[1].replied = pre.now
    /\ replies.chain[2] = pre.replies.chain[1]
    /\ replies.chain[2].replied < replies.chain[1].replied

\* by block: the size of the block released last, 0 before any release
LastOut ==
    IF Len(added) = Len(blocks) THEN 0 ELSE added[Len(added) - Len(blocks)]

\* C26: by block, limit as constructed: a block is released only by a Take
\* that finds no more than the limit released in the trailing second, so at
\* every instant the trailing second's total is at most the limit plus the
\* size of the block released last.
C26_BlockCeiling ==
    /\ (ret.op = "Take" /\ Len(blocks) < Len(pre.blocks))
       => Trailing <= pre.limit
    /\ WindowReleased(released, nextNow) <= limit + LastOut

\* a block larger than the limit has gone out on top of a second already at
\* the limit: the trailing second holds the limit plus that block
C26_Witness ==
    /\ ret.op = "Take"
    /\ Len(blocks) < Len(pre.blocks)
    /\ Trailing = pre.limit
    /\ ret.val > limit
    /\ LastOut = ret.val
    /\ WindowReleased(released, nextNow) = limit + LastOut

\* C27: streaming: a Take that finds the bucket non-empty and the trailing
\* second's total at or above the limit in force (as after SetLimit lowered
\* it) releases exactly 0, leaves the bucket as it was and returns a positive
\* wait; limit - historicalOutput is never taken with historicalOutput above
\* the limit, so neither the release nor the bucket wraps around: the release
\* is no more than the bucket held, and the bucket goes down by the release.
C27_Original ==
    (ret.op = "Take" /\ ~takeByBlock /\ pre.bucket > 0)
    => /\ Trailing >= pre.limit
          => /\ ret.val = 0
             /\ currentBucketSize = pre.bucket
             /\ ret.delay > 0
       /\ clampHistorical(calculateAndCut(pre.replies, pre.now).total) <= pre.limit
       /\ ret.val <= pre.bucket
       /\ ret.val <= pre.limit
       /\ currentBucketSize = pre.bucket - ret.val

\* C28: streaming: a Take on a non-empty bucket leaves the last-event time at
\* its own clock reading, whether it released anything or not; a Take on an
\* empty bucket leaves it as it was; so the share of the limit a Take allows
\* is measured from the previous such call and not from the previous release:
\* with nothing released in the trailing second and the previous call less
\* than a second back, the release is the boosted share of the time since
\* that call (at least 1, at most the bucket), not the whole limit.
C28_LastEvent ==
    (ret.op = "Take" /\ ~takeByBlock)
    => /\ pre.bucket > 0 => lastEvent = pre.now
       /\ pre.bucket = 0 => lastEvent = pre.lastEvent
       /\ (/\ pre.bucket > 0
           /\ pre.lastEvent # NoTime
           /\ pre.now - pre.lastEvent < Second
           /\ Trailing = 0)
          => ret.val = Min(Max(1, Round(11 * pre.limit * (pre.now - pre.lastEvent),
                                        10 * Second)),
                           pre.bucket)

\* the previous call released nothing a tick ago, the last release is a
\* second old: one unit goes out where bucket and limit would give more
C28_Witness ==
    /\ ret.op = "Take"
    /\ ~takeByBlock
    /\ pre.lastEvent = pre.now - 1
    /\ pre.now >= Second
    /\ released[pre.now - Second] >= 1
    /\ Trailing = 0
    /\ pre.bucket >= 2
    /\ pre.limit >= 2
    /\ ret.val = 1
    /\ lastEvent = pre.now

RECURSIVE SumSeq(_)
SumSeq(q) == IF q = <<>> THEN 0 ELSE Head(q) + SumSeq(Tail(q))

\* what is waiting to be handed out: the bucket, or the blocks queued
Pending == IF takeByBlock THEN SumSeq(blocks) ELSE currentBucketSize

\* the step leaves the ledger, the last-event time and the eligible time
SameLedger ==
    /\ replies' = replies
    /\ lastEvent' = lastEvent
    /\ nextBlockTime' = nextBlockTime

\* C29: Add changes only the bucket size, by the chunk size (streaming), or
\* appends one block of that size to the queue (by block); SetLimit changes
\* only the limit; GetLimit and GetBucketSize change nothing; none of them
\* changes the ledger, the last-event time or the eligible time; what is
\* pending grows only by Add and shrinks only by Take.
C29_Frame ==
    [][/\ ret'.op = "Add"
          => /\ SameLedger
             /\ limit' = limit
             /\ takeByBlock' = takeByBlock
             /\ IF takeByBlock
                THEN /\ blocks' = Append(blocks, totalAdded' - totalAdded)
                     /\ currentBucketSize' = currentBucketSize
                ELSE /\ currentBucketSize'
                          = currentBucketSize + (totalAdded' - totalAdded)
                     /\ blocks' = blocks
       /\ ret'.op = "SetLimit"
          => /\ SameLedger
             /\ takeByBlock' = takeByBlock
             /\ currentBucketSize' = currentBucketSize
             /\ blocks' = blocks
       /\ ret'.op \in {"GetLimit", "GetBucketSize", "Advance"}
          => limiterVars' = limiterVars
       /\ Pending' > Pending => ret'.op = "Add"
       /\ Pending' < Pending => ret'.op = "Take"
       /\ ret'.op # "Add" => totalAdded' = totalAdded]_vars

\* by block, with a block queued, a wait pending and a release on the
\* ledger, the limit has been changed
C29_Witness ==
    /\ takeByBlock
    /\ ret.op = "SetLimit"
    /\ ret.val # limit
    /\ Len(blocks) = 1
    /\ nextBlockTime # NoTime
    /\ replies.chain # <<>>

\* C30: by block: a Take made before a stored eligible time returns (0, wait)
\* with wait > 0, the time left until then, whether or not a block is queued;
\* on an empty queue Take returns (0, 0) only when no eligible time lies
\* ahead and no more than the limit went out in the trailing second, and
\* then it does.
C30_WaitFirst ==
    (ret.op = "Take" /\ takeByBlock)
    => /\ ~Eligible
          => /\ ret.val = 0
             /\ ret.delay > 0
             /\ ret.delay = pre.nextBlockTime - pre.now
       /\ pre.blocks = <<>>
          => ((ret.val = 0 /\ ret.delay = 0)
              <=> (Eligible /\ Trailing <= pre.limit))

\* nothing is queued and the Take is still told to wait for the eligible time
C30_Witness ==
    /\ ret.op = "Take"
    /\ takeByBlock
    /\ pre.blocks = <<>>
    /\ ~Eligible
    /\ ret.val = 0
    /\ ret.delay > 0
    /\ nextBlockTime = pre.nextBlockTime

\* ------------------------------------------------------------------ C31
\* C31: a limiter that takes by block: in every reachable state the bucket
\* size is 0, whatever blocks are queued and whatever was released, and
\* GetBucketSize returns 0; no Add and no Take changes it.
C31_BlockBucketZero ==
    takeByBlock
    => /\ currentBucketSize = 0
       /\ ret.op = "GetBucketSize" => ret.val = 0

\* GetBucketSize answers after a block was released and with a block of
\* some size still queued
C31_Witness ==
    /\ takeByBlock
    /\ ret.op = "GetBucketSize"
    /\ taken # <<>>
    /\ blocks # <<>>
    /\ SumSeq(blocks) > 0

\* ------------------------------------------------------------------ C32
\* where a thread stands before the ld.lock.Lock() of its call
WaitingAt ==
    {"addLock", "takeLock", "doTakeByBlock", "getLimitLock", "setLimitLock",
     "getBucketSizeLock"}

\* where a thread stands between that Lock and its return
HoldingAt == {"addRead", "takeClock", "getLimit", "setLimit", "getBucketSize"}

\* the lock is held by the one thread that stands between its Lock and its
\* return, and every thread inside a call has a step to take unless it
\* waits for a lock that another thread holds
LockHeldByCaller ==
    \A th \in Threads :
        /\ locals[th].pc \in {"idle"} \cup WaitingAt \cup HoldingAt
        /\ lock = th <=> locals[th].pc \in HoldingAt
        /\ locals[th].pc \in HoldingAt => ENABLED Return(th)
        /\ (locals[th].pc \in WaitingAt /\ lock = NoThread) => ENABLED Lock(th)

\* a call starts before its Lock; the Lock is all that takes it further, from
\* a free lock; the step after the Lock is the return, which frees the lock
OneLockOneUnlock ==
    \A th \in Threads :
        /\ (locals[th].pc = "idle" /\ locals'[th].pc # "idle")
           => locals'[th].pc \in WaitingAt /\ lock' = lock
        /\ (locals[th].pc \in WaitingAt /\ locals'[th].pc # locals[th].pc)
           => /\ lock = NoThread
              /\ lock' = th
              /\ locals'[th].pc \in HoldingAt
        /\ (locals[th].pc \in HoldingAt /\ locals'[th].pc # locals[th].pc)
           => locals'[th].pc = "idle" /\ lock' = NoThread
        /\ (lock' = th /\ lock # th) => locals[th].pc \in WaitingAt
        /\ (lock = th /\ lock' # th) => locals'[th].pc = "idle"

\* C32: threads calling Add, Take (streaming and by block), GetLimit,
\* SetLimit and GetBucketSize on one limiter: each call takes the lock once,
\* from a free lock and never while its thread holds it, and its next step
\* is the return that frees the lock, with nothing else to wait for; so the
\* lock is held only by a thread that can return, and every call that was
\* made returns.
C32_EveryCallReturns ==
    /\ []LockHeldByCaller
    /\ [][OneLockOneUnlock]_vars
    /\ \A th \in Callers : (locals[th].pc # "idle") ~> (locals[th].pc = "idle")

\* a consumer is inside doTakeByBlock with the lock, after a release that
\* took the window over the limit, while the producer and the other
\* consumer wait for the lock
C32_Witness ==
    /\ takeByBlock
    /\ lock = "c1"
    /\ locals["c1"].pc = "takeClock"
    /\ locals["p1"].pc = "addLock"
    /\ locals["c2"].pc = "doTakeByBlock"
    /\ nextBlockTime # NoTime
    /\ taken # <<>>

====
